---- MODULE Spec2Model ----
(***************************************************************************)
(* Model of the two programs of the repository.                            *)
(*                                                                         *)
(* The movie query tool (HW1-Rust/movies_cargo/src/main.rs):               *)
(* main's argument checks, read_csv's per-record validation loop, and the  *)
(* three queries of the interactive menu.  Spec is main from its start to  *)
(* the return of read_csv; SpecMenu is the menu loop, started in the       *)
(* states in which read_csv has returned a collection.                     *)
(*                                                                         *)
(* Text is a sequence of one-character strings, so that trimming,          *)
(* splitting and parsing are computed character by character.  A rating    *)
(* (f32 in the source) is an integer number of hundredths: the input       *)
(* texts of the model have at most two fractional digits and no exponent,  *)
(* and on such values f32 comparison agrees with the comparison of the     *)
(* hundredths.                                                             *)
(*                                                                         *)
(* The file organizer (HW2-Rust/files_and_directories/src/main.rs): the    *)
(* main menu, select_file with find_largest_csv and find_smallest_csv, and *)
(* process_file.  SpecFind applies the two find functions to directory     *)
(* listings; SpecOrganizer is the menu loop with process_file acting on a  *)
(* file system.  A path is resolved component by component, as the         *)
(* operating system resolves it; file names in a listing are valid UTF-8   *)
(* text.                                                                   *)
(***************************************************************************)
EXTENDS Integers, Sequences, FiniteSets, TLC

VARIABLES
    pc,       \* position of main: "start", "open", "reading", "menu", "exited";
              \* "off" while the organizer is modelled
    args,     \* the command-line arguments after the program name
    file,     \* the opened file: field count of its header, data rows read so far
    idx,      \* read_csv: the enumerate() index of the next record
    list,     \* read_csv: the local list `movies` under construction
    notices,  \* read_csv: the notices printed so far
    err,      \* the error main returns: "none", "open", "read", "record" (from
              \* read_csv), "stdin" (from read_line)
    loaded,   \* main: whether read_csv returned Ok and `movies` is bound
    movies,   \* main: the collection returned by read_csv
    cmd,      \* main: the last menu command: the choice line read and what it
              \* was parsed to (operation, year, language)
    out,      \* the lines printed by the last menu command
    status,   \* "running", or the exit status "success" / "failure"
    menu,         \* organizer: "main" (main's loop), "select" (select_file's
                  \* loop), "exited"; "find" where only the find functions
                  \* are applied; "off" while the movie tool is modelled
    dir_entries,  \* organizer: what fs::read_dir(current_dir) yields, in order
    tree,         \* organizer: the directories and files process_file made
    last,         \* organizer: the last action of the user and how it ended
    exit_status   \* organizer: "running", "success" (exit(0)), "panic"

movie_vars ==
    <<pc, args, file, idx, list, notices, err, loaded, movies, cmd, out, status>>
organizer_vars == <<menu, dir_entries, tree, last, exit_status>>
vars == <<movie_vars, organizer_vars>>

(***************************************************************************)
(* Bounds of the model.                                                    *)
(***************************************************************************)
MaxRows == 3
MaxMovies == 3

(***************************************************************************)
(* Program constants.                                                      *)
(***************************************************************************)
MinYear == 1900
MaxYear == 2021
MaxLanguages == 5
MaxLangLen == 20
MinRating == 100
MaxRating == 1000
MaxFileNameLen == 50
I32Max == 2147483647

(***************************************************************************)
(* Characters and text helpers (str::trim, str::split, str::parse).        *)
(***************************************************************************)
Digits == {"0", "1", "2", "3", "4", "5", "6", "7", "8", "9"}

DigitVal(c) ==
    CASE c = "0" -> 0 [] c = "1" -> 1 [] c = "2" -> 2 [] c = "3" -> 3
      [] c = "4" -> 4 [] c = "5" -> 5 [] c = "6" -> 6 [] c = "7" -> 7
      [] c = "8" -> 8 [] c = "9" -> 9

IsWhitespace(c) == c \in {" ", "\t"}

RECURSIVE TrimStart(_)
TrimStart(s) ==
    IF s # <<>> /\ IsWhitespace(Head(s)) THEN TrimStart(Tail(s)) ELSE s

RECURSIVE TrimEnd(_)
TrimEnd(s) ==
    IF s # <<>> /\ IsWhitespace(s[Len(s)])
    THEN TrimEnd(SubSeq(s, 1, Len(s) - 1))
    ELSE s

\* str::trim
Trim(s) == TrimEnd(TrimStart(s))

\* str::split(';'): the segments between the delimiters, empty ones included
RECURSIVE SplitFrom(_, _, _)
SplitFrom(s, i, cur) ==
    IF i > Len(s) THEN <<cur>>
    ELSE IF s[i] = ";" THEN <<cur>> \o SplitFrom(s, i + 1, <<>>)
    ELSE SplitFrom(s, i + 1, Append(cur, s[i]))

Split(s) == SplitFrom(s, 1, <<>>)

\* value of a run of decimal digits
RECURSIVE DigitsValue(_, _)
DigitsValue(s, acc) ==
    IF s = <<>> THEN acc ELSE DigitsValue(Tail(s), acc * 10 + DigitVal(Head(s)))

AllDigits(s) == \A i \in 1..Len(s) : s[i] \in Digits

\* Result<T, ParseError> of str::parse
ParseOk(v) == [ok |-> TRUE, val |-> v]
ParseErr == [ok |-> FALSE, val |-> 0]

\* str::parse::<i32>: optional sign, at least one digit, no overflow
parse_i32(s) ==
    LET signed == s # <<>> /\ Head(s) \in {"+", "-"}
        body   == IF signed THEN Tail(s) ELSE s
        mag    == DigitsValue(body, 0)
        val    == IF signed /\ Head(s) = "-" THEN 0 - mag ELSE mag
    IN  IF body = <<>> \/ ~AllDigits(body) THEN ParseErr
        ELSE IF val > I32Max \/ val < 0 - I32Max - 1 THEN ParseErr
        ELSE ParseOk(val)

\* position of the first '.' of s, 0 if there is none
RECURSIVE DotPos(_, _)
DotPos(s, i) ==
    IF i > Len(s) THEN 0 ELSE IF s[i] = "." THEN i ELSE DotPos(s, i + 1)

\* str::parse::<f32> on decimal texts without exponent and with at most two
\* fractional digits (the rating texts of the model), in hundredths; texts
\* such as "inf" and "NaN", which f32 parses to values outside [1.0, 10.0],
\* are errors here, and both ways the rating becomes 0.0
parse_f32(s) ==
    LET signed == s # <<>> /\ Head(s) \in {"+", "-"}
        body   == IF signed THEN Tail(s) ELSE s
        dot    == DotPos(body, 1)
        ip     == IF dot = 0 THEN body ELSE SubSeq(body, 1, dot - 1)
        fp     == IF dot = 0 THEN <<>> ELSE SubSeq(body, dot + 1, Len(body))
        frac   == IF Len(fp) = 0 THEN 0
                  ELSE IF Len(fp) = 1 THEN 10 * DigitsValue(fp, 0)
                  ELSE DigitsValue(fp, 0)
        mag    == 100 * DigitsValue(ip, 0) + frac
    IN  IF ip = <<>> /\ fp = <<>> THEN ParseErr
        ELSE IF ~AllDigits(ip) \/ ~AllDigits(fp) \/ Len(fp) > 2 THEN ParseErr
        ELSE IF signed /\ Head(s) = "-" THEN ParseOk(0 - mag) ELSE ParseOk(mag)

\* "{:.1}" of a rating: the number of tenths nearest to r hundredths (the
\* rating texts of the model have no hundredths digit 5, so no tie arises)
FormatRating(r) == (r + 5) \div 10

(***************************************************************************)
(* Inputs: command lines, files and console lines.                         *)
(***************************************************************************)
\* a byte that is not part of any UTF-8 encoded character
InvalidByte == "0xFF"

Long21 == [i \in 1..21 |-> "x"]
Long20 == [i \in 1..20 |-> "y"]

Y1994 == <<"1", "9", "9", "4">>
Y1972 == <<"1", "9", "7", "2">>
LEn   == <<"[", "E", "n", "]">>
R93   == <<"9", ".", "3">>
SixTokens == <<"[", "a", ";", "b", ";", "c", ";", "d", ";", "e", ";", "f", "]">>

\* data rows a file may hold: title, year, languages, rating
Rows ==
    { <<<<"A">>, Y1994, LEn, R93>>,
      <<<<" ", "B", " ">>, <<" ", "1", "9", "9", "4">>,
        <<"[", "E", "n", ";", " ", "F", "r", "]">>, <<"8", ".", "6", "4">>>>,
      <<<<"C">>, Y1972, <<"[", "e", "n", "]">>, <<"a", "b", "c">>>>,
      <<<<"D">>, <<"2", "0", "2", "1">>, <<"[">> \o Long20 \o <<"]">>,
        <<"1", "0", ".", "5">>>>,
      <<<<"F">>, Y1972, <<"[", "a", ";", "b", ";", "c", ";", "d", ";", "e", ";", "]">>,
        <<"1", "0">>>>,
      <<<<"E">>, <<"2", "0", "2", "1">>, <<"[", "]">>, <<>>>>,
      <<<<" ">>, Y1994, LEn, R93>>,
      <<<<"I">>, <<"2", "0", "2", "2">>, LEn, R93>>,
      <<<<"L">>, Y1994, SixTokens, R93>>,
      <<<<"G">>, <<>>, <<"E", "n", ";", "F", "r">>, R93>>,
      <<<<"H">>, <<"1", "8", "5", "0">>, LEn, R93>>,
      <<<<"J">>, <<"1", "9", "x", "4">>, SixTokens, R93>>,
      <<<<"K">>, Y1994, <<"E", "n", ";", "F", "r">>, R93>>,
      <<<<"M">>, Y1994,
        <<"[", "a", ";", "b", ";", "c", ";", "d", ";", "e", ";">> \o Long21 \o <<"]">>,
        R93>>,
      <<<<"N">>, Y1994, <<"[">> \o Long21 \o <<"]">>, R93>>,
      <<<<"O">>, <<"1", "9", "0", "0">>, <<"[", "]">>>>,
      <<<<"P", InvalidByte>>, Y1994, LEn, R93>>,
      <<<<"Q">>, Y1994, LEn, R93>> }

\* number of fields of the header row
HeaderLens == {3, 4}

NoFile == [header |-> 0, rows |-> <<>>]

\* argument vectors after the program name
ArgVectors ==
    { <<>>,
      << <<"m", " ", "c", "s", "v">> >>,
      << <<"m", "\t", "c">> >>,
      << [i \in 1..49 |-> "f"] >>,
      << [i \in 1..50 |-> "f"] >>,
      << <<"m">>, <<"n">> >> }

\* lines a user may type at the menu, year and language prompts
\* (the empty line is also what read_line leaves at end of input)
ChoiceLines ==
    { <<"1">>, <<" ", "2">>, <<"3">>, <<"4">>, <<"7">>, <<"x">>, <<>> }
YearLines ==
    { Y1994, <<"1", "9", "7", "2", " ">>, <<"1", "8", "5", "0">> }
LanguageLines ==
    { <<"E", "n">>, <<"e", "n">>, <<"E">>, <<" ", "F", "r">>, Long21 }

(***************************************************************************)
(* read_csv: validation of one record.                                     *)
(***************************************************************************)
\* record.get(i).unwrap_or("").trim(), i counted from 0
Field(record, i) == IF i + 1 <= Len(record) THEN Trim(record[i + 1]) ELSE <<>>

\* rule 1: title.is_empty() || year_str.is_empty()
MissingTitleOrYear(title, year_str) == title = <<>> \/ year_str = <<>>

\* the range check without its lower end
YearInRange_NoLowerBound(y) == y <= MaxYear

YearInRange(y) == MinYear <= y /\ y <= MaxYear

\* rule 2: Ok(y) if (1900..=2021).contains(&y)
ParseYear(year_str) ==
    LET r == parse_i32(year_str)
    IN  IF r.ok /\ YearInRange(r.val) THEN r ELSE ParseErr

\* rule 3: starts_with('[') && ends_with(']')
Bracketed(s) == s # <<>> /\ Head(s) = "[" /\ s[Len(s)] = "]"

RECURSIVE TrimAll(_)
TrimAll(ss) == IF ss = <<>> THEN <<>> ELSE <<Trim(Head(ss))>> \o TrimAll(Tail(ss))

NonEmpty(s) == s # <<>>

\* s[1..len-1].split(';').map(trim).filter(!is_empty).collect()
ParseLanguages(s) ==
    SelectSeq(TrimAll(Split(SubSeq(s, 2, Len(s) - 1))), NonEmpty)

\* the count check with the limit off by one
TooManyLanguages_OffByOne(languages) == Len(languages) > MaxLanguages + 1

\* rule 4: languages.len() > 5
TooManyLanguages(languages) == Len(languages) > MaxLanguages

\* the length check with the limit off by one
LanguageTooLong_OffByOne(languages) ==
    \E i \in 1..Len(languages) : Len(languages[i]) > MaxLangLen + 1

\* rule 5: languages.iter().any(|lang| lang.len() > 20)
LanguageTooLong(languages) ==
    \E i \in 1..Len(languages) : Len(languages[i]) > MaxLangLen

\* the range check without its upper end
RatingInRange_NoUpperBound(r) == MinRating <= r

RatingInRange(r) == MinRating <= r /\ r <= MaxRating

\* Ok(r) if (1.0..=10.0).contains(&r) => r, _ => 0.0
ParseRating(rating_str) ==
    LET r == parse_f32(rating_str)
    IN  IF r.ok /\ RatingInRange(r.val) THEN r ELSE ParseErr

Movie(t, y, l, r) == [title |-> t, year |-> y, languages |-> l, rating |-> r]

\* the chain with the language rules before the year rule
SkipRule_LanguagesFirst(title, year_str, languages_str) ==
    IF MissingTitleOrYear(title, year_str) THEN 1
    ELSE IF ~Bracketed(languages_str) THEN 3
    ELSE IF LanguageTooLong(ParseLanguages(languages_str)) THEN 5
    ELSE IF TooManyLanguages(ParseLanguages(languages_str)) THEN 4
    ELSE IF ~ParseYear(year_str).ok THEN 2
    ELSE 0

\* the chain of `continue`s of the loop body: the number of the first rule
\* that skips the record, 0 if none does
SkipRule(title, year_str, languages_str) ==
    IF MissingTitleOrYear(title, year_str) THEN 1
    ELSE IF ~ParseYear(year_str).ok THEN 2
    ELSE IF ~Bracketed(languages_str) THEN 3
    ELSE IF TooManyLanguages(ParseLanguages(languages_str)) THEN 4
    ELSE IF LanguageTooLong(ParseLanguages(languages_str)) THEN 5
    ELSE 0

\* outcome of one loop iteration: skip = 0 keeps the record, skip = 1..5 is
\* the rule that skipped it
ValidateRecord(record) ==
    LET title         == Field(record, 0)
        year_str      == Field(record, 1)
        languages_str == Field(record, 2)
        rating_str    == Field(record, 3)
        rating        == ParseRating(rating_str)
        skip          == SkipRule(title, year_str, languages_str)
    IN  IF skip # 0
        THEN [skip |-> skip, defaulted |-> FALSE,
              movie |-> Movie(<<>>, 0, <<>>, 0)]
        ELSE [skip |-> 0, defaulted |-> ~rating.ok,
              movie |-> Movie(title, ParseYear(year_str).val,
                              ParseLanguages(languages_str),
                              IF rating.ok THEN rating.val ELSE 0)]

\* the record added at the front of the list
PushBack_Front(l, movie) == <<movie>> \o l

\* movies.push_back(movie)
PushBack(l, movie) == Append(l, movie)

\* the lines read_csv prints for the record at 1-based file line `line`
RecordNotices(v, line) ==
    IF v.skip # 0 THEN << [line |-> line, kind |-> "skip", rule |-> v.skip] >>
    ELSE IF v.defaulted THEN << [line |-> line, kind |-> "rating", rule |-> 0] >>
    ELSE <<>>

(***************************************************************************)
(* The three queries.  A printed line is a record: kind "title" (by year), *)
(* "pair" (by language), "best" (highest rated), "none" (no movies found). *)
(***************************************************************************)
Line(k, y, r, t) == [kind |-> k, year |-> y, shown |-> r, text |-> t]

\* for movie in movies { if movie.year == year { println; found = true } }
RECURSIVE ByYearLoop(_, _, _, _)
ByYearLoop(ms, i, year, acc) ==
    IF i > Len(ms) THEN acc
    ELSE IF ms[i].year = year
    THEN ByYearLoop(ms, i + 1, year,
            [lines |-> Append(acc.lines, Line("title", 0, 0, ms[i].title)),
             found |-> TRUE])
    ELSE ByYearLoop(ms, i + 1, year, acc)

\* the query without its `found` flag: the "none" line is always printed
show_movies_by_year_AlwaysNone(ms, year) ==
    LET r == ByYearLoop(ms, 1, year, [lines |-> <<>>, found |-> FALSE])
    IN  Append(r.lines, Line("none", year, 0, <<>>))

show_movies_by_year(ms, year) ==
    LET r == ByYearLoop(ms, 1, year, [lines |-> <<>>, found |-> FALSE])
    IN  IF ~r.found THEN Append(r.lines, Line("none", year, 0, <<>>))
        ELSE r.lines

Lower(c) == IF c = "E" THEN "e" ELSE IF c = "F" THEN "f" ELSE c

LowerAll(s) == [i \in 1..Len(s) |-> Lower(s[i])]

\* the membership test made case-insensitive
Contains_IgnoreCase(languages, language) ==
    \E i \in 1..Len(languages) : LowerAll(languages[i]) = LowerAll(language)

\* movie.languages.contains(&language.to_string())
Contains(languages, language) ==
    \E i \in 1..Len(languages) : languages[i] = language

RECURSIVE ByLanguageLoop(_, _, _, _)
ByLanguageLoop(ms, i, language, acc) ==
    IF i > Len(ms) THEN acc
    ELSE IF Contains(ms[i].languages, language)
    THEN ByLanguageLoop(ms, i + 1, language,
            [lines |-> Append(acc.lines,
                              Line("pair", ms[i].year, 0, ms[i].title)),
             found |-> TRUE])
    ELSE ByLanguageLoop(ms, i + 1, language, acc)

show_movies_by_language(ms, language) ==
    LET r == ByLanguageLoop(ms, 1, language, [lines |-> <<>>, found |-> FALSE])
    IN  IF ~r.found THEN Append(r.lines, Line("none", 0, 0, language))
        ELSE r.lines

\* the comparison the wrong way round
Replaces_Lower(movie, existing) == movie.rating < existing.rating

\* the comparison with which an equally rated later record replaces the entry
Replaces_OrEqual(movie, existing) == movie.rating >= existing.rating

\* if movie.rating > existing.rating { *existing = movie }
Replaces(movie, existing) == movie.rating > existing.rating

\* highest_rated.entry(movie.year).and_modify(..).or_insert(movie)
RECURSIVE HighestRated(_, _, _)
HighestRated(ms, i, hr) ==
    IF i > Len(ms) THEN hr
    ELSE LET movie == ms[i]
         IN  HighestRated(ms, i + 1,
                IF movie.year \in DOMAIN hr
                THEN IF Replaces(movie, hr[movie.year])
                     THEN [hr EXCEPT ![movie.year] = movie]
                     ELSE hr
                ELSE hr @@ (movie.year :> movie))

Least(S) == CHOOSE x \in S : \A y \in S : x <= y

\* years.sort()
RECURSIVE SortYears(_)
SortYears(S) ==
    IF S = {} THEN <<>> ELSE <<Least(S)>> \o SortYears(S \ {Least(S)})

EmptyMap == [y \in {} |-> 0]

\* println!("{} {:.1} {}", year, movie.rating, movie.title) for each year
show_highest_rated_movies(ms) ==
    LET hr    == HighestRated(ms, 1, EmptyMap)
        years == SortYears(DOMAIN hr)
    IN  [k \in 1..Len(years) |->
            Line("best", years[k], FormatRating(hr[years[k]].rating),
                 hr[years[k]].title)]

(***************************************************************************)
(* main and read_csv as a state machine.                                   *)
(***************************************************************************)
\* what is known of the organizer's last action: the operation, the file
\* name it came to, whether a file was found, how process_file ended, the
\* directory name process_file formed and the records it read
Action(op, name, found, result, dir_name, rows) ==
    [op |-> op, name |-> name, found |-> found, result |-> result,
     dir_name |-> dir_name, rows |-> rows]
NoAction == Action("none", <<>>, FALSE, "none", <<>>, <<>>)

\* the organizer is not running
OrganizerIdle ==
    /\ menu = "off"
    /\ dir_entries = <<>>
    /\ tree = {}
    /\ last = NoAction
    /\ exit_status = "running"

Cmd(line, op, y, l) == [line |-> line, op |-> op, year |-> y, language |-> l]
NoCmd == Cmd(<<>>, "none", 0, <<>>)

Init ==
    /\ pc = "start"
    /\ args \in ArgVectors
    /\ file = NoFile
    /\ idx = 0
    /\ list = <<>>
    /\ notices = <<>>
    /\ err = "none"
    /\ loaded = FALSE
    /\ movies = <<>>
    /\ cmd = NoCmd
    /\ out = <<>>
    /\ status = "running"
    /\ OrganizerIdle

\* process::exit(1), or main returning Err
Fail ==
    /\ pc' = "exited"
    /\ status' = "failure"

HasSpace(s) == \E i \in 1..Len(s) : s[i] = " "

\* the checks with a cap that lets a name of 50 characters through
BadArgs_CapOffByOne(a) ==
    \/ Len(a) # 1
    \/ Len(a[1]) > MaxFileNameLen
    \/ HasSpace(a[1])

\* args.len() != 2 || filename.len() >= 50 || filename.contains(' ')
BadArgs(a) ==
    \/ Len(a) # 1
    \/ Len(a[1]) >= MaxFileNameLen
    \/ HasSpace(a[1])

\* main, up to the call of read_csv
CheckArgs ==
    /\ pc = "start"
    /\ IF BadArgs(args)
       THEN Fail
       ELSE pc' = "open" /\ status' = status
    /\ UNCHANGED <<args, file, idx, list, notices, err, loaded, movies, cmd, out>>
    /\ UNCHANGED organizer_vars

\* File::open(filename)? succeeds; the reader takes the first row as header
OpenFile ==
    /\ pc = "open"
    /\ \E h \in HeaderLens : file' = [header |-> h, rows |-> <<>>]
    /\ pc' = "reading"
    /\ UNCHANGED <<args, idx, list, notices, err, loaded, movies, cmd, out, status>>
    /\ UNCHANGED organizer_vars

\* File::open(filename)? fails
OpenFails ==
    /\ pc = "open"
    /\ err' = "open"
    /\ Fail
    /\ UNCHANGED <<args, file, idx, list, notices, loaded, movies, cmd, out>>
    /\ UNCHANGED organizer_vars

\* StringRecord: every field is valid UTF-8
ValidUtf8(record) ==
    \A i \in 1..Len(record) : \A k \in 1..Len(record[i]) : record[i][k] # InvalidByte

\* a reader for which a record without a title is an error as well
WellFormed_TitleRequired(record, header) ==
    Len(record) = header /\ ValidUtf8(record) /\ Trim(record[1]) # <<>>

\* rdr.records() yields Err for a record that is not valid UTF-8 and
\* (flexible = false) for a record whose number of fields differs from the
\* header's
WellFormed(record, header) == Len(record) = header /\ ValidUtf8(record)


\* one iteration of `for (index, result) in rdr.records().enumerate()`
ReadRecord ==
    /\ pc = "reading"
    /\ Len(file.rows) < MaxRows
    /\ \E record \in Rows :
        /\ file' = [file EXCEPT !.rows = Append(@, record)]
        /\ IF ~WellFormed(record, file.header)
           THEN /\ err' = "record"
                /\ Fail
                /\ UNCHANGED <<idx, list, notices>>
           ELSE LET v == ValidateRecord(record)
                IN  /\ idx' = idx + 1
                    /\ notices' = notices \o RecordNotices(v, idx + 2)
                    /\ list' = IF v.skip = 0 THEN PushBack(list, v.movie) ELSE list
                    /\ UNCHANGED <<pc, err, status>>
    /\ UNCHANGED <<args, loaded, movies, cmd, out>>
    /\ UNCHANGED organizer_vars

\* the underlying read fails: `result?` returns the error
ReadError ==
    /\ pc = "reading"
    /\ err' = "read"
    /\ Fail
    /\ UNCHANGED <<args, file, idx, list, notices, loaded, movies, cmd, out>>
    /\ UNCHANGED organizer_vars

\* the iterator is exhausted: read_csv returns Ok(movies)
EndOfFile ==
    /\ pc = "reading"
    /\ loaded' = TRUE
    /\ movies' = list
    /\ pc' = "menu"
    /\ UNCHANGED <<args, file, idx, list, notices, err, cmd, out, status>>
    /\ UNCHANGED organizer_vars

ParseChoice(line) == parse_i32(Trim(line))

\* a menu whose default branch ends the program
MenuInvalid_Exits ==
    /\ pc = "menu"
    /\ \E line \in ChoiceLines :
        LET c == ParseChoice(line)
        IN  /\ ~c.ok \/ c.val \notin 1..4
            /\ cmd' = Cmd(line, "invalid", 0, <<>>)
            /\ out' = << Line("invalid", 0, 0, <<>>) >>
    /\ Fail
    /\ UNCHANGED <<args, file, idx, list, notices, err, loaded, movies>>
    /\ UNCHANGED organizer_vars

\* a choice that is not a number, or not one of 1..4
MenuInvalid ==
    /\ pc = "menu"
    /\ \E line \in ChoiceLines :
        LET c == ParseChoice(line)
        IN  /\ ~c.ok \/ c.val \notin 1..4
            /\ cmd' = Cmd(line, "invalid", 0, <<>>)
            /\ out' = << Line("invalid", 0, 0, <<>>) >>
    /\ UNCHANGED <<pc, args, file, idx, list, notices, err, loaded, movies, status>>
    /\ UNCHANGED organizer_vars

\* choice 1
MenuYear ==
    /\ pc = "menu"
    /\ \E line \in ChoiceLines, year_input \in YearLines :
        LET c == ParseChoice(line)
            y == ParseYear(Trim(year_input))
        IN  /\ c.ok /\ c.val = 1
            /\ IF y.ok
               THEN /\ cmd' = Cmd(line, "year", y.val, <<>>)
                    /\ out' = show_movies_by_year(movies, y.val)
               ELSE /\ cmd' = Cmd(line, "invalid", 0, <<>>)
                    /\ out' = << Line("invalid", 0, 0, <<>>) >>
    /\ UNCHANGED <<pc, args, file, idx, list, notices, err, loaded, movies, status>>
    /\ UNCHANGED organizer_vars

\* choice 2 with a query that takes the collection by value and uses it up
MenuHighest_ConsumesCollection ==
    /\ pc = "menu"
    /\ \E line \in ChoiceLines :
        LET c == ParseChoice(line)
        IN  /\ c.ok /\ c.val = 2
            /\ cmd' = Cmd(line, "best", 0, <<>>)
            /\ out' = show_highest_rated_movies(movies)
    /\ movies' = <<>>
    /\ UNCHANGED <<pc, args, file, idx, list, notices, err, loaded, status>>
    /\ UNCHANGED organizer_vars

\* choice 2
MenuHighest ==
    /\ pc = "menu"
    /\ \E line \in ChoiceLines :
        LET c == ParseChoice(line)
        IN  /\ c.ok /\ c.val = 2
            /\ cmd' = Cmd(line, "best", 0, <<>>)
            /\ out' = show_highest_rated_movies(movies)
    /\ UNCHANGED <<pc, args, file, idx, list, notices, err, loaded, movies, status>>
    /\ UNCHANGED organizer_vars

\* choice 3
MenuLanguage ==
    /\ pc = "menu"
    /\ \E line \in ChoiceLines, input \in LanguageLines :
        LET c == ParseChoice(line)
            language == Trim(input)
        IN  /\ c.ok /\ c.val = 3
            /\ IF Len(language) > MaxLangLen
               THEN /\ cmd' = Cmd(line, "invalid", 0, <<>>)
                    /\ out' = << Line("invalid", 0, 0, <<>>) >>
               ELSE /\ cmd' = Cmd(line, "language", 0, language)
                    /\ out' = show_movies_by_language(movies, language)
    /\ UNCHANGED <<pc, args, file, idx, list, notices, err, loaded, movies, status>>
    /\ UNCHANGED organizer_vars

\* choice 4: break, then Ok(())
MenuQuit ==
    /\ pc = "menu"
    /\ \E line \in ChoiceLines :
        LET c == ParseChoice(line)
        IN  /\ c.ok /\ c.val = 4
            /\ cmd' = Cmd(line, "quit", 0, <<>>)
    /\ out' = << Line("exiting", 0, 0, <<>>) >>
    /\ pc' = "exited"
    /\ status' = "success"
    /\ UNCHANGED <<args, file, idx, list, notices, err, loaded, movies>>
    /\ UNCHANGED organizer_vars

\* io::stdin().read_line(..)? fails at the choice, year or language prompt
\* (an I/O error, or a line that is not valid UTF-8): main returns the error
ReadLineFails ==
    /\ pc = "menu"
    /\ err' = "stdin"
    /\ Fail
    /\ UNCHANGED <<args, file, idx, list, notices, loaded, movies, cmd, out>>
    /\ UNCHANGED organizer_vars

\* main from its start to the return of read_csv
Next ==
    \/ CheckArgs
    \/ OpenFile
    \/ OpenFails
    \/ ReadRecord
    \/ ReadError
    \/ EndOfFile

Spec == Init /\ [][Next]_vars

\* the whole loop of read_csv over rows that are all well formed: the list
\* and the notices it ends with
RECURSIVE ReadAll(_, _)
ReadAll(rows, n) ==
    IF n = 0 THEN [list |-> <<>>, notices |-> <<>>]
    ELSE LET before == ReadAll(rows, n - 1)
             v      == ValidateRecord(rows[n])
         IN  [list    |-> IF v.skip = 0 THEN PushBack(before.list, v.movie)
                          ELSE before.list,
              notices |-> before.notices \o RecordNotices(v, n + 1)]

\* the rows of a file with header h that read_csv keeps
KeptRows(h) == { r \in Rows : WellFormed(r, h) /\ ValidateRecord(r).skip = 0 }

\* main at the start of the menu loop: read_csv has returned the collection
\* of a file of rows it keeps
InitMenu ==
    /\ pc = "menu"
    /\ args = << [i \in 1..49 |-> "f"] >>
    /\ \E h \in HeaderLens, n \in 0..MaxMovies :
          \E rows \in [1..n -> KeptRows(h)] :
              /\ file = [header |-> h, rows |-> rows]
              /\ idx = n
              /\ list = ReadAll(rows, n).list
              /\ notices = ReadAll(rows, n).notices
              /\ movies = ReadAll(rows, n).list
    /\ err = "none"
    /\ loaded = TRUE
    /\ cmd = NoCmd
    /\ out = <<>>
    /\ status = "running"
    /\ OrganizerIdle

\* the menu loop of main
NextMenu ==
    \/ MenuInvalid
    \/ MenuYear
    \/ MenuHighest
    \/ MenuLanguage
    \/ MenuQuit
    \/ ReadLineFails

SpecMenu == InitMenu /\ [][NextMenu]_vars

(***************************************************************************)
(* The file organizer: bounds, constants and inputs.                       *)
(***************************************************************************)
MaxEntries == 3
MaxCsvRows == 2

\* set_mode(0o750), set_mode(0o640), in decimal
DirMode == 488
FileMode == 416
\* the modes create_dir and open(create) leave under the usual umask 022:
\* 0o755 and 0o644, in decimal
DefaultDirMode == 493
DefaultFileMode == 420

ONID == <<"c", "l", "i", "n", "i", "c", "k", "e">>

Prefix == <<"m", "o", "v", "i", "e", "s", "_">>
Suffix == <<".", "c", "s", "v">>

\* a directory entry: its file name, path.is_file(), metadata.len()
Entry(name, is_file, size) == [name |-> name, is_file |-> is_file, size |-> size]

Movies1 == Entry(Prefix \o <<"1">> \o Suffix, TRUE, 10)
Movies2 == Entry(Prefix \o <<"2">> \o Suffix, TRUE, 10)
Movies3 == Entry(Prefix \o <<"3">> \o Suffix, TRUE, 20)
MoviesDir == Entry(Prefix \o <<"4">> \o Suffix, FALSE, 30)
MoviesTxt == Entry(Prefix \o <<"5", ".", "t", "x", "t">>, TRUE, 30)
XMovies == Entry(<<"x">> \o Prefix \o <<"6">> \o Suffix, TRUE, 5)

DirEntrySet == {Movies1, Movies2, Movies3, MoviesDir, MoviesTxt, XMovies}

\* the enumerations of a directory of at most MaxEntries entries
Listings ==
    UNION { { l \in [1..n -> DirEntrySet] :
                \A i, j \in 1..n : i # j => l[i].name # l[j].name }
            : n \in 0..MaxEntries }

\* the directories the organizer is run in
OrganizerListings ==
    { <<>>, <<Movies1, Movies2>>, <<MoviesDir, Movies3>> }

\* the values of rand::thread_rng().gen_range(0..=99999): a single one, so
\* that a second call of process_file meets the directory of the first
RandomNumbers == {7}

\* the header row and the data records a chosen file may hold: title, year
CsvHeader == << <<"T">>, <<"Y">> >>
CsvRecords ==
    { << <<"A">>, Y1994 >>,
      << <<"B">>, Y1994 >>,
      << <<"C">>, Y1972 >>,
      << <<>>, Y1994 >>,
      << <<"D">>, <<>> >>,
      << <<"E">>, <<".", ".", "/">> \o Y1994 >>,
      << <<"F">> >> }

CsvFiles == UNION { [1..n -> CsvRecords] : n \in 0..MaxCsvRows }

\* lines a user may type at the two menus and at the file name prompt
MainLines == { <<"1">>, <<" ", "2">>, <<"3">>, <<>> }
SelectLines == { <<"1">>, <<"2">>, <<"3", " ">>, <<"4">> }
NameLines ==
    { <<" ">> \o Movies1.name, MoviesDir.name, <<"n", "o", "n", "e">> }

(***************************************************************************)
(* find_largest_csv and find_smallest_csv.                                 *)
(***************************************************************************)
\* str::starts_with, str::ends_with
StartsWith(s, p) == Len(s) >= Len(p) /\ SubSeq(s, 1, Len(p)) = p
EndsWith(s, p) == Len(s) >= Len(p) /\ SubSeq(s, Len(s) - Len(p) + 1, Len(s)) = p

\* Option<(String, u64)>
NoneFile == [found |-> FALSE, name |-> <<>>, size |-> 0]
SomeFile(name, size) == [found |-> TRUE, name |-> name, size |-> size]

\* path.is_file() && file_name.starts_with("movies_") && file_name.ends_with(".csv")
IsCandidate(entry) ==
    entry.is_file /\ StartsWith(entry.name, Prefix) /\ EndsWith(entry.name, Suffix)

\* the comparison with which an equally large later file replaces the entry
Larger_OrEqual(size, current_max) == size >= current_max

\* if size > *current_max
Larger(size, current_max) == size > current_max

\* if size < *current_min
Smaller(size, current_min) == size < current_min

\* the loop of find_largest_csv from entry i on
RECURSIVE LargestFrom(_, _, _)
LargestFrom(entries, i, largest_file) ==
    IF i > Len(entries) THEN largest_file
    ELSE LET entry == entries[i]
         IN  LargestFrom(entries, i + 1,
                IF IsCandidate(entry)
                   /\ (~largest_file.found \/ Larger(entry.size, largest_file.size))
                THEN SomeFile(entry.name, entry.size)
                ELSE largest_file)

find_largest_csv(entries) == LargestFrom(entries, 1, NoneFile)

\* the loop of find_smallest_csv from entry i on
RECURSIVE SmallestFrom(_, _, _)
SmallestFrom(entries, i, smallest_file) ==
    IF i > Len(entries) THEN smallest_file
    ELSE LET entry == entries[i]
         IN  SmallestFrom(entries, i + 1,
                IF IsCandidate(entry)
                   /\ (~smallest_file.found \/ Smaller(entry.size, smallest_file.size))
                THEN SomeFile(entry.name, entry.size)
                ELSE smallest_file)

find_smallest_csv(entries) == SmallestFrom(entries, 1, NoneFile)

(***************************************************************************)
(* process_file on a file system.                                          *)
(***************************************************************************)
DigitChar(d) == CHOOSE c \in Digits : DigitVal(c) = d

\* "{}" of an integer
RECURSIVE FormatInt(_)
FormatInt(n) ==
    IF n < 10 THEN <<DigitChar(n)>>
    ELSE Append(FormatInt(n \div 10), DigitChar(n % 10))

\* format!("{}.movies.{}", ONID, random_number)
DirName(random_number) ==
    ONID \o <<".", "m", "o", "v", "i", "e", "s", ".">> \o FormatInt(random_number)

\* format!("{}/{}.txt", dir_name, year)
YearFilePath(dir_name, year) == dir_name \o <<"/">> \o year \o <<".", "t", "x", "t">>

\* the components of a path text, separated by '/'
RECURSIVE ComponentsFrom(_, _, _)
ComponentsFrom(s, i, cur) ==
    IF i > Len(s) THEN <<cur>>
    ELSE IF s[i] = "/" THEN <<cur>> \o ComponentsFrom(s, i + 1, <<>>)
    ELSE ComponentsFrom(s, i + 1, Append(cur, s[i]))

Components(s) == ComponentsFrom(s, 1, <<>>)

\* an object of the file system below the current directory: its resolved
\* path (a sequence of names), its kind, its mode, and the lines of a file
Obj(path, is_dir, mode, lines) ==
    [path |-> path, is_dir |-> is_dir, mode |-> mode, lines |-> lines]

Exists(t, path) == \E o \in t : o.path = path
IsDir(t, path) == path = <<>> \/ \E o \in t : o.path = path /\ o.is_dir
ObjAt(t, path) == CHOOSE o \in t : o.path = path

\* resolution of a relative path by the operating system: "" and "." stay,
\* ".." goes to the parent, a name enters a directory, which has to exist;
\* the last component names the file (no path leaves the current directory
\* in the model)
RECURSIVE Resolve(_, _, _, _)
Resolve(t, comps, i, dir) ==
    IF i = Len(comps) THEN [ok |-> TRUE, path |-> Append(dir, comps[i])]
    ELSE IF comps[i] = <<>> \/ comps[i] = <<".">> THEN Resolve(t, comps, i + 1, dir)
    ELSE IF comps[i] = <<".", ".">>
         THEN IF dir = <<>> THEN [ok |-> FALSE, path |-> <<>>]
              ELSE Resolve(t, comps, i + 1, SubSeq(dir, 1, Len(dir) - 1))
    ELSE IF IsDir(t, Append(dir, comps[i]))
         THEN Resolve(t, comps, i + 1, Append(dir, comps[i]))
    ELSE [ok |-> FALSE, path |-> <<>>]

\* the file at path with the given mode and lines, in place of what was there
Put(t, path, mode, lines) ==
    { o \in t : o.path # path } \cup { Obj(path, FALSE, mode, lines) }

\* record.get(i).unwrap_or("").to_string(), i counted from 0
GetField(record, i) == IF i + 1 <= Len(record) THEN record[i + 1] ELSE <<>>

\* the loop over rdr.records(): movies_by_year after the first n records
RECURSIVE movies_by_year(_, _)
movies_by_year(rows, n) ==
    IF n = 0 THEN EmptyMap
    ELSE LET before == movies_by_year(rows, n - 1)
             title  == GetField(rows[n], 0)
             year   == GetField(rows[n], 1)
         IN  IF title # <<>> /\ year # <<>>
             THEN IF year \in DOMAIN before
                  THEN [before EXCEPT ![year] = Append(@, title)]
                  ELSE before @@ (year :> <<title>>)
             ELSE before

\* the orders in which a HashMap may be iterated
Orders(keys) ==
    { o \in [1..Cardinality(keys) -> keys] :
        \A i, j \in 1..Cardinality(keys) : i # j => o[i] # o[j] }

\* a failure of the operating system: the call it hits and, for a call of
\* the loop over the years, the iteration
Fault(site, k) == [site |-> site, k |-> k]
NoFault == Fault("none", 0)
Faults(iterations) ==
    {NoFault}
    \cup { Fault(site, 0) : site \in {"create_dir", "chmod_dir", "open", "read"} }
    \cup { Fault(site, k) : site \in {"create_file", "write", "chmod_file"},
                            k \in 1..iterations }

Outcome(t, result) == [tree |-> t, result |-> result]

\* the loop `for (year, titles) in movies_by_year` from iteration k on
RECURSIVE WriteYears(_, _, _, _, _, _)
WriteYears(t, dir_name, by_year, order, k, fault) ==
    IF k > Len(order) THEN Outcome(t, "ok")
    ELSE LET year   == order[k]
             to     == Resolve(t, Components(YearFilePath(dir_name, year)), 1, <<>>)
             hit(s) == fault.site = s /\ fault.k = k
             mode   == IF Exists(t, to.path) THEN ObjAt(t, to.path).mode
                       ELSE DefaultFileMode
         IN  IF ~to.ok \/ IsDir(t, to.path) \/ hit("create_file")
             THEN Outcome(t, "create_file")
             ELSE IF hit("write") THEN Outcome(Put(t, to.path, mode, <<>>), "write")
             ELSE IF hit("chmod_file")
                  THEN Outcome(Put(t, to.path, mode, by_year[year]), "chmod_file")
             ELSE WriteYears(Put(t, to.path, FileMode, by_year[year]),
                             dir_name, by_year, order, k + 1, fault)

\* process_file: t is the file system before the call, is_file tells whether
\* file_name is a regular file, rows are its data records
process_file(t, is_file, random_number, rows, order, fault) ==
    LET dir_name == DirName(random_number)
        made     == t \cup { Obj(<<dir_name>>, TRUE, DefaultDirMode, <<>>) }
        set      == t \cup { Obj(<<dir_name>>, TRUE, DirMode, <<>>) }
    IN  IF Exists(t, <<dir_name>>) \/ fault.site = "create_dir"
        THEN Outcome(t, "create_dir")
        ELSE IF fault.site = "chmod_dir" THEN Outcome(made, "chmod_dir")
        ELSE IF fault.site = "open" THEN Outcome(set, "open")
        ELSE IF \/ ~is_file
                \/ fault.site = "read"
                \/ \E n \in 1..Len(rows) : ~WellFormed(rows[n], Len(CsvHeader))
             THEN Outcome(set, "read")
        ELSE WriteYears(set, dir_name, movies_by_year(rows, Len(rows)), order, 1, fault)

(***************************************************************************)
(* The organizer as a state machine.                                       *)
(***************************************************************************)
\* read_user_input: input.trim()
read_user_input(line) == Trim(line)

\* a choice other than "1" and "2" at the main menu
MainInvalid ==
    /\ menu = "main"
    /\ \E line \in MainLines :
          read_user_input(line) \notin { <<"1">>, <<"2">> }
    /\ last' = Action("invalid", <<>>, FALSE, "none", <<>>, <<>>)
    /\ UNCHANGED <<menu, dir_entries, tree, exit_status>>
    /\ UNCHANGED movie_vars

\* "1" at the main menu: select_file is entered
MainSelect ==
    /\ menu = "main"
    /\ \E line \in MainLines : read_user_input(line) = <<"1">>
    /\ menu' = "select"
    /\ last' = Action("select", <<>>, FALSE, "none", <<>>, <<>>)
    /\ UNCHANGED <<dir_entries, tree, exit_status>>
    /\ UNCHANGED movie_vars

\* "2" at the main menu: process::exit(0)
MainExit ==
    /\ menu = "main"
    /\ \E line \in MainLines : read_user_input(line) = <<"2">>
    /\ menu' = "exited"
    /\ exit_status' = "success"
    /\ last' = Action("exit", <<>>, FALSE, "none", <<>>, <<>>)
    /\ UNCHANGED <<dir_entries, tree>>
    /\ UNCHANGED movie_vars

\* what the records of the chosen file may be; nothing is read of a directory
\* and, when the new directory cannot be created, of any file
FilesRead(is_file) ==
    IF is_file /\ \E n \in RandomNumbers : ~Exists(tree, <<DirName(n)>>)
    THEN CsvFiles
    ELSE { <<>> }

\* select_file has returned Some(file_name): main calls process_file, prints
\* the error if there is one, and goes round its loop
Process(op, file_name, is_file) ==
    \E random_number \in RandomNumbers, rows \in FilesRead(is_file) :
        \E order \in Orders(DOMAIN movies_by_year(rows, Len(rows))) :
            \E fault \in Faults(Len(order)) :
                LET done == process_file(tree, is_file, random_number, rows,
                                         order, fault)
                    read == done.result \in {"ok", "create_file", "write", "chmod_file"}
                IN  /\ tree' = done.tree
                    /\ last' = Action(op, file_name, TRUE, done.result,
                                      DirName(random_number),
                                      IF read THEN rows ELSE <<>>)
                    /\ menu' = "main"

\* "1" in select_file
SelectLargest ==
    /\ menu = "select"
    /\ \E line \in SelectLines : read_user_input(line) = <<"1">>
    /\ LET found == find_largest_csv(dir_entries)
       IN  IF found.found
           THEN Process("largest", found.name, TRUE)
           ELSE /\ last' = Action("largest", <<>>, FALSE, "none", <<>>, <<>>)
                /\ UNCHANGED <<menu, tree>>
    /\ UNCHANGED <<dir_entries, exit_status>>
    /\ UNCHANGED movie_vars

\* "2" in select_file
SelectSmallest ==
    /\ menu = "select"
    /\ \E line \in SelectLines : read_user_input(line) = <<"2">>
    /\ LET found == find_smallest_csv(dir_entries)
       IN  IF found.found
           THEN Process("smallest", found.name, TRUE)
           ELSE /\ last' = Action("smallest", <<>>, FALSE, "none", <<>>, <<>>)
                /\ UNCHANGED <<menu, tree>>
    /\ UNCHANGED <<dir_entries, exit_status>>
    /\ UNCHANGED movie_vars

\* Path::new(&file_name).exists() and whether the path is a regular file
PathExists(file_name) ==
    \/ \E i \in 1..Len(dir_entries) : dir_entries[i].name = file_name
    \/ Exists(tree, <<file_name>>)
PathIsFile(file_name) ==
    \/ \E i \in 1..Len(dir_entries) :
          dir_entries[i].name = file_name /\ dir_entries[i].is_file
    \/ \E o \in tree : o.path = <<file_name>> /\ ~o.is_dir

\* "3" in select_file and the file name typed after it
SelectByName ==
    /\ menu = "select"
    /\ \E line \in SelectLines : read_user_input(line) = <<"3">>
    /\ \E name_line \in NameLines :
          LET file_name == read_user_input(name_line)
          IN  IF PathExists(file_name)
              THEN Process("name", file_name, PathIsFile(file_name))
              ELSE /\ last' = Action("name", file_name, FALSE, "none", <<>>, <<>>)
                   /\ UNCHANGED <<menu, tree>>
    /\ UNCHANGED <<dir_entries, exit_status>>
    /\ UNCHANGED movie_vars

\* any other choice in select_file
SelectInvalid ==
    /\ menu = "select"
    /\ \E line \in SelectLines :
          read_user_input(line) \notin { <<"1">>, <<"2">>, <<"3">> }
    /\ last' = Action("invalid", <<>>, FALSE, "none", <<>>, <<>>)
    /\ UNCHANGED <<menu, dir_entries, tree, exit_status>>
    /\ UNCHANGED movie_vars

\* "1" or "2" in select_file when env::current_dir() or fs::read_dir(..)
\* fails: .expect(..) panics
ReadDirPanics ==
    /\ menu = "select"
    /\ \E op \in {"largest", "smallest"} :
          last' = Action(op, <<>>, FALSE, "read_dir", <<>>, <<>>)
    /\ menu' = "exited"
    /\ exit_status' = "panic"
    /\ UNCHANGED <<dir_entries, tree>>
    /\ UNCHANGED movie_vars

\* read_line fails in read_user_input: .expect("Failed to read line") panics
ReadInputPanics ==
    /\ menu \in {"main", "select"}
    /\ last' = Action("input", <<>>, FALSE, "stdin", <<>>, <<>>)
    /\ menu' = "exited"
    /\ exit_status' = "panic"
    /\ UNCHANGED <<dir_entries, tree>>
    /\ UNCHANGED movie_vars

\* the movie tool is not running
MoviesIdle ==
    /\ pc = "off"
    /\ args = <<>>
    /\ file = NoFile
    /\ idx = 0
    /\ list = <<>>
    /\ notices = <<>>
    /\ err = "none"
    /\ loaded = FALSE
    /\ movies = <<>>
    /\ cmd = NoCmd
    /\ out = <<>>
    /\ status = "running"

\* the organizer at the start of main, in a directory
InitOrganizer ==
    /\ menu = "main"
    /\ dir_entries \in OrganizerListings
    /\ tree = {}
    /\ last = NoAction
    /\ exit_status = "running"
    /\ MoviesIdle

NextOrganizer ==
    \/ MainInvalid
    \/ MainSelect
    \/ MainExit
    \/ SelectLargest
    \/ SelectSmallest
    \/ SelectByName
    \/ SelectInvalid
    \/ ReadDirPanics
    \/ ReadInputPanics

SpecOrganizer == InitOrganizer /\ [][NextOrganizer]_vars

\* find_largest_csv on a directory listing
FindLargest ==
    /\ menu = "find"
    /\ LET found == find_largest_csv(dir_entries)
       IN  last' = Action("largest", found.name, found.found, "none", <<>>, <<>>)
    /\ UNCHANGED <<menu, dir_entries, tree, exit_status>>
    /\ UNCHANGED movie_vars

\* find_smallest_csv on a directory listing
FindSmallest ==
    /\ menu = "find"
    /\ LET found == find_smallest_csv(dir_entries)
       IN  last' = Action("smallest", found.name, found.found, "none", <<>>, <<>>)
    /\ UNCHANGED <<menu, dir_entries, tree, exit_status>>
    /\ UNCHANGED movie_vars

\* the two find functions about to be applied to a directory listing
InitFind ==
    /\ menu = "find"
    /\ dir_entries \in Listings
    /\ tree = {}
    /\ last = NoAction
    /\ exit_status = "running"
    /\ MoviesIdle

NextFind ==
    \/ FindLargest
    \/ FindSmallest

SpecFind == InitFind /\ [][NextFind]_vars

(***************************************************************************)
(* The validation rules as the specification states them, for the          *)
(* properties below.                                                       *)
(***************************************************************************)
\* the i-th field of a data row as the loader sees it (absent = empty)
RowField(row, i) == IF i <= Len(row) THEN Trim(row[i]) ELSE <<>>

\* the rows the validation loop has been through
Processed == 1..idx

\* the row the step under consideration reads
NewRow == file'.rows[Len(file'.rows)]

\* the step is an iteration of the loop that validates a record
ValidatesRow == Len(file'.rows) = Len(file.rows) + 1 /\ idx' = idx + 1

IsYear(text) ==
    LET y == parse_i32(text) IN y.ok /\ y.val >= 1900 /\ y.val <= 2021

IsBracketed(text) ==
    Len(text) >= 2 /\ text[1] = "[" /\ text[Len(text)] = "]"

\* the language tokens of a bracketed field: trimmed segments, empty dropped
Tokens(text) ==
    LET segs == Split(SubSeq(text, 2, Len(text) - 1))
        IsToken(seg) == Trim(seg) # <<>>
        kept == SelectSeq(segs, IsToken)
    IN  [i \in 1..Len(kept) |-> Trim(kept[i])]

\* the rules 1..5 a row violates
Violated(row) ==
    LET title == RowField(row, 1)
        year  == RowField(row, 2)
        langs == RowField(row, 3)
        toks  == Tokens(langs)
    IN  (IF title = <<>> \/ year = <<>> THEN {1} ELSE {})
        \cup (IF ~IsYear(year) THEN {2} ELSE {})
        \cup (IF ~IsBracketed(langs) THEN {3} ELSE {})
        \cup (IF IsBracketed(langs) /\ Len(toks) > 5 THEN {4} ELSE {})
        \cup (IF IsBracketed(langs) /\ \E i \in 1..Len(toks) : Len(toks[i]) > 20
              THEN {5} ELSE {})

\* the rating a kept row gets, in hundredths
RatingOf(row) ==
    LET r == parse_f32(RowField(row, 4))
    IN  IF r.ok /\ r.val >= 100 /\ r.val <= 1000 THEN r.val ELSE 0

\* the record a row that violates no rule is loaded as
RecordOf(row) ==
    [title |-> RowField(row, 1), year |-> parse_i32(RowField(row, 2)).val,
     languages |-> Tokens(RowField(row, 3)), rating |-> RatingOf(row)]

(***************************************************************************)
(* C1: every record of the collection read_csv builds and returns has a    *)
(* non-empty trimmed title and a year in [1900, 2021], and the iteration   *)
(* that reads a row with an empty title, an empty year, a non-integer year *)
(* or an out-of-range year adds nothing to the collection.                 *)
(***************************************************************************)
GoodTitleAndYear(m) == m.title # <<>> /\ m.year >= 1900 /\ m.year <= 2021

BadTitleOrYear(row) ==
    \/ RowField(row, 1) = <<>>
    \/ RowField(row, 2) = <<>>
    \/ ~IsYear(RowField(row, 2))

C1_TitleAndYearValid ==
    /\ [](/\ \A i \in 1..Len(list) : GoodTitleAndYear(list[i])
          /\ \A i \in 1..Len(movies) : GoodTitleAndYear(movies[i]))
    /\ [][ValidatesRow /\ BadTitleOrYear(NewRow) => list' = list]_vars

\* the collection was returned with a record in it although the file held a
\* row of year 1850 and a row without a title
C1_Witness ==
    /\ pc = "menu"
    /\ Len(movies) >= 1
    /\ \E j \in Processed : RowField(file.rows[j], 2) = <<"1", "8", "5", "0">>
    /\ \E j \in Processed : RowField(file.rows[j], 1) = <<>>

(***************************************************************************)
(* C2: as claimed, the load fails only if the file cannot be opened or the *)
(* underlying read fails, so that no row of the file makes read_csv return *)
(* an error: every row the file delivered went through validation.         *)
(***************************************************************************)
C2_NoRowIsFatal ==
    /\ err \in {"none", "open", "read"}
    /\ \A j \in 1..Len(file.rows) : j \in Processed

(***************************************************************************)
(* C2 as amended: the load fails only if the file cannot be opened, the    *)
(* underlying read fails, or the reader rejects a row as malformed: its    *)
(* number of fields differs from the header's, or it is not valid UTF-8.   *)
(* A row of valid text with the header's number of fields never makes      *)
(* read_csv return an error, whatever its fields hold: it went through     *)
(* validation, as did the rows after a skipped row.  When the load fails   *)
(* no collection is returned.                                              *)
(***************************************************************************)
LoadFailed == pc = "exited" /\ status = "failure" /\ ~BadArgs(args)

Malformed(row) ==
    \/ Len(row) # file.header
    \/ \E i \in 1..Len(row) : \E k \in 1..Len(row[i]) : row[i][k] = InvalidByte

C2_OnlyMalformedRowIsFatal ==
    /\ LoadFailed <=> err \in {"open", "read", "record"}
    /\ err = "record" <=> \E j \in 1..Len(file.rows) : Malformed(file.rows[j])
    /\ \A j \in 1..Len(file.rows) : ~Malformed(file.rows[j]) => j \in Processed
    /\ LoadFailed => ~loaded /\ movies = <<>>

\* the load went on to the end after two skipped rows
C2_Witness ==
    /\ pc = "menu"
    /\ loaded
    /\ idx >= 3
    /\ Violated(file.rows[1]) # {}
    /\ Violated(file.rows[2]) # {}
    /\ Violated(file.rows[3]) = {}
    /\ Len(movies) = 1

\* the load failed at a row shorter than the header, after a kept row
C2_FatalRowWitness ==
    /\ LoadFailed
    /\ err = "record"
    /\ Len(list) >= 1
    /\ Len(file.rows[Len(file.rows)]) < file.header

(***************************************************************************)
(* C3: the iteration that reads a row violating none of the rules 1-5      *)
(* keeps it whatever its rating field holds, with rating 0.0 when the      *)
(* field is missing, unparsable or outside [1.0, 10.0] and the parsed      *)
(* value otherwise; every loaded record's rating is 0.0 or in [1.0, 10.0]. *)
(***************************************************************************)
GoodRating(m) == m.rating = 0 \/ (m.rating >= 100 /\ m.rating <= 1000)

C3_RatingNeverSkips ==
    /\ [](/\ \A i \in 1..Len(list) : GoodRating(list[i])
          /\ \A i \in 1..Len(movies) : GoodRating(movies[i]))
    /\ [][ValidatesRow /\ Violated(NewRow) = {} =>
            /\ Len(list') = Len(list) + 1
            /\ list'[Len(list')].rating = RatingOf(NewRow)]_vars

\* kept with rating 0.0: a row with rating "abc", one with rating "10.5";
\* kept with the parsed rating: a row with rating "8.64"
C3_Witness ==
    /\ pc = "menu"
    /\ Len(movies) = 3
    /\ \E j \in Processed :
          RowField(file.rows[j], 4) = <<"a", "b", "c">> /\ movies[j].rating = 0
    /\ \E j \in Processed :
          RowField(file.rows[j], 4) = <<"1", "0", ".", "5">> /\ movies[j].rating = 0
    /\ \E j \in Processed :
          RowField(file.rows[j], 4) = <<"8", ".", "6", "4">> /\ movies[j].rating = 864

(***************************************************************************)
(* C4: every record of the collection has at most 5 language tokens, each  *)
(* at most 20 characters long, and the iteration that reads a row whose    *)
(* languages field is not wrapped in '[' ... ']' adds nothing to the       *)
(* collection.                                                             *)
(***************************************************************************)
GoodLanguages(m) ==
    /\ Len(m.languages) <= 5
    /\ \A k \in 1..Len(m.languages) : Len(m.languages[k]) <= 20

C4_LanguagesBounded ==
    /\ [](/\ \A i \in 1..Len(list) : GoodLanguages(list[i])
          /\ \A i \in 1..Len(movies) : GoodLanguages(movies[i]))
    /\ [][ValidatesRow /\ ~IsBracketed(RowField(NewRow, 3)) => list' = list]_vars

\* loaded: a record with 5 languages and one with a 20-character language,
\* from a file that also held the row with languages `En;Fr`
C4_Witness ==
    /\ pc = "menu"
    /\ \E i \in 1..Len(movies) : Len(movies[i].languages) = 5
    /\ \E i \in 1..Len(movies) : \E k \in 1..Len(movies[i].languages) :
          Len(movies[i].languages[k]) = 20
    /\ \E j \in Processed :
          /\ RowField(file.rows[j], 3) = <<"E", "n", ";", "F", "r">>
          /\ Violated(file.rows[j]) = {3}

(***************************************************************************)
(* C5: the iteration that validates a row skips it by the lowest-numbered  *)
(* rule the row violates: it prints exactly one skip notice, for the row's *)
(* line and with that rule, and none if the row violates no rule; the      *)
(* notices printed before stay as they are.                                *)
(***************************************************************************)
\* the skip notices the step under consideration prints
NewSkips ==
    SelectSeq(SubSeq(notices', Len(notices) + 1, Len(notices')),
              LAMBDA n : n.kind = "skip")

LowestOf(S) == CHOOSE k \in S : \A other \in S : k <= other

C5_FirstFailingRuleDecides ==
    [][ValidatesRow =>
        /\ Len(notices') >= Len(notices)
        /\ SubSeq(notices', 1, Len(notices)) = notices
        /\ IF Violated(NewRow) = {}
           THEN NewSkips = <<>>
           ELSE NewSkips = << [line |-> idx + 2, kind |-> "skip",
                               rule |-> LowestOf(Violated(NewRow))] >>]_vars

\* validated: a row violating rules 1, 2 and 3, one violating rules 2 and 4,
\* and one violating rules 4 and 5, with one skip notice each
C5_Witness ==
    /\ idx = 3
    /\ Len(notices) = 3
    /\ notices[1].rule = 1 /\ notices[2].rule = 2 /\ notices[3].rule = 4
    /\ {1, 2, 3} \subseteq Violated(file.rows[1])
    /\ Violated(file.rows[2]) = {2, 4}
    /\ Violated(file.rows[3]) = {4, 5}

(***************************************************************************)
(* C6: as claimed, the iteration that validates a row that passes rules    *)
(* 1-3 and whose bracketed languages field yields more than 5 segments     *)
(* when split on ';' (empty and whitespace-only segments counted, as in    *)
(* `[a;b;c;d;e;]`) skips it with the reason "too many languages".          *)
(***************************************************************************)
PassesRules1To3(row) == Violated(row) \cap {1, 2, 3} = {}

Segments(text) == Split(SubSeq(text, 2, Len(text) - 1))

SkippedByRule(line, k) ==
    \E n \in 1..Len(notices) :
        notices[n].kind = "skip" /\ notices[n].line = line /\ notices[n].rule = k

C6_MoreThanFiveSegmentsSkipped ==
    [][(/\ ValidatesRow
        /\ PassesRules1To3(NewRow)
        /\ Len(Segments(RowField(NewRow, 3))) > 5)
            => (\E n \in 1..Len(NewSkips) : NewSkips[n].rule = 4)]_vars

(***************************************************************************)
(* C6 as amended: the iteration that validates a row that passes rules     *)
(* 1-3 and whose bracketed languages field yields more than 5 non-empty    *)
(* tokens, after splitting on ';', trimming each segment and dropping the  *)
(* empty ones, skips it with the reason "too many languages";              *)
(* `[a;b;c;d;e;]` yields 5 tokens and is not skipped by this rule.         *)
(***************************************************************************)
C6_MoreThanFiveTokensSkipped ==
    [][(ValidatesRow /\ PassesRules1To3(NewRow)) =>
            IF Len(Tokens(RowField(NewRow, 3))) > 5
            THEN \E n \in 1..Len(NewSkips) : NewSkips[n].rule = 4
            ELSE \A n \in 1..Len(NewSkips) : NewSkips[n].rule # 4]_vars

\* validated: a row with six language tokens, which was skipped, and the row
\* with the field `[a;b;c;d;e;]`, which was kept
C6_Witness ==
    /\ idx = 2
    /\ PassesRules1To3(file.rows[1])
    /\ Len(Tokens(RowField(file.rows[1], 3))) = 6
    /\ SkippedByRule(2, 4)
    /\ PassesRules1To3(file.rows[2])
    /\ Len(Segments(RowField(file.rows[2], 3))) = 6
    /\ Len(list) = 1
    /\ Len(list[1].languages) = 5

(***************************************************************************)
(* C7: the collection is exactly the subsequence of the validated data     *)
(* rows that violate none of the rules 1-5, in input row order, each row   *)
(* loaded once and as its own record; the collection main receives is the  *)
(* one built from all the rows of the file.                                *)
(***************************************************************************)
RECURSIVE KeptRecords(_, _)
KeptRecords(rows, n) ==
    IF n = 0 THEN <<>>
    ELSE IF Violated(rows[n]) = {}
    THEN Append(KeptRecords(rows, n - 1), RecordOf(rows[n]))
    ELSE KeptRecords(rows, n - 1)

C7_CollectionIsValidRowsInOrder ==
    /\ list = KeptRecords(file.rows, idx)
    /\ loaded => movies = KeptRecords(file.rows, Len(file.rows))

\* loaded from three rows: two different records around a skipped row
C7_Witness ==
    /\ pc = "menu"
    /\ Len(file.rows) = 3
    /\ Violated(file.rows[1]) = {}
    /\ Violated(file.rows[2]) # {}
    /\ Violated(file.rows[3]) = {}
    /\ Len(movies) = 2
    /\ movies[1] # movies[2]

(***************************************************************************)
(* The queries as the specification states them.                           *)
(***************************************************************************)
YearsPresent == { movies[i].year : i \in 1..Len(movies) }

RatingsOf(year) ==
    { movies[i].rating : i \in { n \in 1..Len(movies) : movies[n].year = year } }

MaxRatingOf(year) == CHOOSE r \in RatingsOf(year) : \A other \in RatingsOf(year) : r >= other

\* one line per distinct year of the collection, in strictly ascending order,
\* with the title of a record of that year that has the year's maximum rating
OnePerYearAscendingWithBestTitle ==
    /\ \A k \in 1..Len(out) : out[k].kind = "best"
    /\ { out[k].year : k \in 1..Len(out) } = YearsPresent
    /\ \A k \in 1..Len(out) - 1 : out[k].year < out[k + 1].year
    /\ \A k \in 1..Len(out) :
          \E i \in 1..Len(movies) :
              /\ movies[i].year = out[k].year
              /\ movies[i].rating = MaxRatingOf(out[k].year)
              /\ movies[i].title = out[k].text

(***************************************************************************)
(* C8: as claimed, after best-per-year the output has exactly one entry    *)
(* per distinct year of the collection, in strictly ascending year order,  *)
(* the rating of each entry equals the maximum rating among the records of *)
(* that year, and its title belongs to a record of that year having that   *)
(* rating.                                                                 *)
(***************************************************************************)
C8_ShownRatingEqualsMaximum ==
    cmd.op = "best" =>
        /\ OnePerYearAscendingWithBestTitle
        /\ \A k \in 1..Len(out) : 10 * out[k].shown = MaxRatingOf(out[k].year)

(***************************************************************************)
(* C8 as amended: after best-per-year the output has exactly one entry per *)
(* distinct year of the collection, in strictly ascending year order; each *)
(* entry is that of a record of that year having the maximum rating among  *)
(* the records of that year: it has this record's title, and its rating is *)
(* the maximum rounded to one decimal place, so it equals the maximum only *)
(* when the maximum has no further decimals.                               *)
(***************************************************************************)
C8_ShownRatingIsRoundedMaximum ==
    cmd.op = "best" =>
        /\ OnePerYearAscendingWithBestTitle
        /\ \A k \in 1..Len(out) :
              /\ 10 * out[k].shown - 5 <= MaxRatingOf(out[k].year)
              /\ MaxRatingOf(out[k].year) < 10 * out[k].shown + 5

\* best-per-year on 1994 with ratings 8.64 and 9.3 and 1972 loaded last:
\* 1972 comes first, 1994 is shown with 9.3 and the title "A"
C8_Witness ==
    /\ cmd.op = "best"
    /\ Len(movies) = 3
    /\ movies[1].year = 1994 /\ movies[1].rating = 864
    /\ movies[2].year = 1994 /\ movies[2].rating = 930
    /\ movies[3].year = 1972
    /\ Len(out) = 2
    /\ out[1].year = 1972
    /\ out[2] = Line("best", 1994, 93, <<"A">>)

(***************************************************************************)
(* C9: after filter-by-year, the output is exactly the titles of the       *)
(* records whose year equals the target, in collection order, and the "No  *)
(* movies found" line is printed if and only if no record has that year.   *)
(***************************************************************************)
RECURSIVE TitlesOfYear(_, _)
TitlesOfYear(n, year) ==
    IF n = 0 THEN <<>>
    ELSE IF movies[n].year = year
    THEN Append(TitlesOfYear(n - 1, year), movies[n].title)
    ELSE TitlesOfYear(n - 1, year)

TitleLines == SelectSeq(out, LAMBDA l : l.kind = "title")

NoneLines == SelectSeq(out, LAMBDA l : l.kind = "none")

C9_ByYearExactInOrder ==
    cmd.op = "year" =>
        LET titles == TitlesOfYear(Len(movies), cmd.year)
        IN  /\ Len(TitleLines) = Len(titles)
            /\ \A k \in 1..Len(titles) : TitleLines[k].text = titles[k]
            /\ Len(out) = Len(TitleLines) + Len(NoneLines)
            /\ IF titles = <<>>
               THEN NoneLines = << Line("none", cmd.year, 0, <<>>) >>
               ELSE NoneLines = <<>>

\* filter-by-year printed two titles out of a collection of three
C9_Witness ==
    /\ cmd.op = "year"
    /\ Len(movies) = 3
    /\ movies[2].year # cmd.year
    /\ Len(out) = 2
    /\ out[1].text # out[2].text
    /\ \A k \in 1..2 : out[k].kind = "title"

\* filter-by-year found nothing in a collection that is not empty
C9_NoneWitness ==
    /\ cmd.op = "year"
    /\ Len(movies) >= 1
    /\ out = << Line("none", cmd.year, 0, <<>>) >>

(***************************************************************************)
(* C10: after filter-by-language, the output is exactly the (year, title)  *)
(* pairs of the records whose language list has a token equal to the       *)
(* target, character for character, in collection order, and the "No       *)
(* movies found" line is printed if and only if no record matches.         *)
(***************************************************************************)
HasToken(m, language) ==
    \E k \in 1..Len(m.languages) :
        /\ Len(m.languages[k]) = Len(language)
        /\ \A c \in 1..Len(language) : m.languages[k][c] = language[c]

RECURSIVE PairsOfLanguage(_, _)
PairsOfLanguage(n, language) ==
    IF n = 0 THEN <<>>
    ELSE IF HasToken(movies[n], language)
    THEN Append(PairsOfLanguage(n - 1, language),
                <<movies[n].year, movies[n].title>>)
    ELSE PairsOfLanguage(n - 1, language)

PairLines == SelectSeq(out, LAMBDA l : l.kind = "pair")

C10_ByLanguageExactInOrder ==
    cmd.op = "language" =>
        LET pairs == PairsOfLanguage(Len(movies), cmd.language)
        IN  /\ Len(PairLines) = Len(pairs)
            /\ \A k \in 1..Len(pairs) :
                  <<PairLines[k].year, PairLines[k].text>> = pairs[k]
            /\ Len(out) = Len(PairLines) + Len(NoneLines)
            /\ IF pairs = <<>>
               THEN NoneLines = << Line("none", 0, 0, cmd.language) >>
               ELSE NoneLines = <<>>

\* "en" asked of a collection whose records have "En" but not "en"
C10_Witness ==
    /\ cmd.op = "language"
    /\ cmd.language = <<"e", "n">>
    /\ Len(movies) >= 1
    /\ \A i \in 1..Len(movies) :
          \E k \in 1..Len(movies[i].languages) : movies[i].languages[k] = <<"E", "n">>
    /\ out = << Line("none", 0, 0, <<"e", "n">>) >>

\* "En" asked: two records printed in order, the one with "en" left out
C10_FoundWitness ==
    /\ cmd.op = "language"
    /\ cmd.language = <<"E", "n">>
    /\ Len(movies) = 3
    /\ movies[2].languages = << <<"e", "n">> >>
    /\ Len(out) = 2
    /\ out[1] = Line("pair", movies[1].year, 0, movies[1].title)
    /\ out[2] = Line("pair", movies[3].year, 0, movies[3].title)
    /\ out[1] # out[2]

(***************************************************************************)
(* The menu commands as functions of the command and of a collection.      *)
(***************************************************************************)
\* what a command prints when it is run on the collection ms
QueryResult(c, ms) ==
    CASE c.op = "year"     -> show_movies_by_year(ms, c.year)
      [] c.op = "best"     -> show_highest_rated_movies(ms)
      [] c.op = "language" -> show_movies_by_language(ms, c.language)
      [] c.op = "invalid"  -> << Line("invalid", 0, 0, <<>>) >>
      [] c.op = "quit"     -> << Line("exiting", 0, 0, <<>>) >>
      [] OTHER             -> <<>>

(***************************************************************************)
(* C11: after the load the record collection is never changed.  In every   *)
(* state of the menu loop the collection main holds is, record for record  *)
(* and in order, the list read_csv returned; no step changes it; and what  *)
(* the last command printed is what that command prints on the list        *)
(* read_csv returned, whatever commands were issued before it, so that a   *)
(* repeated query gives the same result.                                   *)
(***************************************************************************)
C11_CollectionNeverChanges ==
    /\ [](loaded => movies = list /\ out = QueryResult(cmd, list))
    /\ [][loaded => movies' = movies /\ list' = list /\ loaded']_vars

\* by-language was asked of a collection of two records or more, printed
\* something, and the collection is still the one read_csv returned
C11_Witness ==
    /\ loaded
    /\ cmd.op = "language"
    /\ Len(movies) >= 2
    /\ movies = list
    /\ Len(out) >= 2
    /\ out[1].kind = "pair"

(***************************************************************************)
(* The menu loop as the specification describes it.                        *)
(***************************************************************************)
\* the line is not one of the selections 1..4
NotASelection(line) ==
    LET t == Trim(line)
    IN  t = <<>> \/ ~AllDigits(t) \/ DigitsValue(t, 0) \notin 1..4

IsQuitSelection(line) ==
    LET t == Trim(line)
    IN  t # <<>> /\ AllDigits(t) /\ DigitsValue(t, 0) = 4

\* the step is an iteration of the menu loop that has read its choice line
ReadsChoice == pc = "menu" /\ err' = "none"

\* the step prints the invalid-choice notice and nothing else, stays in the
\* loop and changes nothing else
Reprompts ==
    /\ pc' = "menu"
    /\ status' = "running"
    /\ out' = << Line("invalid", 0, 0, <<>>) >>
    /\ UNCHANGED <<args, file, idx, list, notices, err, loaded, movies>>

InvalidSelectionReprompts ==
    [][ReadsChoice /\ NotASelection(cmd'.line) => Reprompts]_vars

QuitEndsWithSuccess ==
    [][ReadsChoice /\ IsQuitSelection(cmd'.line)
          => pc' = "exited" /\ status' = "success"]_vars

(***************************************************************************)
(* C12: as claimed, an invalid selection re-prompts without running a      *)
(* query and without other effect, and the menu loop is left only by       *)
(* selection 4, after which the process ends with success status.          *)
(***************************************************************************)
C12_LoopLeftOnlyByQuit ==
    /\ InvalidSelectionReprompts
    /\ QuitEndsWithSuccess
    /\ [][pc = "menu" /\ pc' # "menu"
            => IsQuitSelection(cmd'.line) /\ status' = "success"]_vars

(***************************************************************************)
(* C12 as amended: an invalid selection (not a number, or not in 1..4)     *)
(* re-prompts without running a query and without other effect; selection  *)
(* 4 leaves the loop and the process ends with success status; the only    *)
(* other way out of the loop is a failed read of an input line, after      *)
(* which the process ends with failure status.                             *)
(***************************************************************************)
C12_LoopLeftByQuitOrReadFailure ==
    /\ InvalidSelectionReprompts
    /\ QuitEndsWithSuccess
    /\ [][pc = "menu" /\ pc' # "menu"
            => \/ err' = "none" /\ IsQuitSelection(cmd'.line) /\ status' = "success"
               \/ err' = "stdin" /\ status' = "failure"]_vars

\* "x" was typed at the menu, the invalid-choice notice was printed and the
\* loop went on; the read of the next line failed and the process ended
C12_Witness ==
    /\ cmd = Cmd(<<"x">>, "invalid", 0, <<>>)
    /\ out = << Line("invalid", 0, 0, <<>>) >>
    /\ err = "stdin"
    /\ pc = "exited"
    /\ status = "failure"

(***************************************************************************)
(* Startup arguments as the specification describes them.                  *)
(***************************************************************************)
\* the file name argument is missing, or there are extra arguments
WrongArgCount == Len(args) # 1

\* the file name is longer than the cap of 49 characters
NameTooLong == Len(args) = 1 /\ Len(args[1]) > MaxFileNameLen - 1

NameHasWhitespace ==
    Len(args) = 1 /\ \E i \in 1..Len(args[1]) : IsWhitespace(args[1][i])

NameHasSpace == Len(args) = 1 /\ \E i \in 1..Len(args[1]) : args[1][i] = " "

\* the process ends at once with a failure status; the file is never opened
\* or read and the menu is never shown
EndsBeforeFileAndMenu ==
    /\ pc \in {"start", "exited"}
    /\ pc = "exited" => status = "failure"
    /\ file = NoFile /\ idx = 0 /\ err = "none"
    /\ ~loaded /\ cmd = NoCmd /\ out = <<>>

(***************************************************************************)
(* C13: as claimed, a missing file name or extra arguments, a file name of *)
(* more than 49 characters and a file name that contains whitespace each   *)
(* end the process with a non-zero status in the first step, before the    *)
(* file is read and before the menu is shown.                              *)
(***************************************************************************)
C13_WhitespaceNameRejected ==
    /\ []((WrongArgCount \/ NameTooLong \/ NameHasWhitespace) => EndsBeforeFileAndMenu)
    /\ [][pc = "start" /\ (WrongArgCount \/ NameTooLong \/ NameHasWhitespace)
            => pc' = "exited" /\ status' = "failure"]_vars

(***************************************************************************)
(* C13 as amended: a missing file name or extra arguments, a file name of  *)
(* more than 49 characters and a file name that contains a space character *)
(* each end the process with a non-zero status in the first step, before   *)
(* the file is read and before the menu is shown; any other argument       *)
(* vector, a name with a tab in it included, goes on to the opening of the *)
(* file.                                                                   *)
(***************************************************************************)
C13_SpaceNameRejected ==
    /\ []((WrongArgCount \/ NameTooLong \/ NameHasSpace) => EndsBeforeFileAndMenu)
    /\ [][pc = "start" /\ (WrongArgCount \/ NameTooLong \/ NameHasSpace)
            => pc' = "exited" /\ status' = "failure"]_vars
    /\ [][pc = "start" /\ ~(WrongArgCount \/ NameTooLong \/ NameHasSpace)
            => pc' = "open" /\ status' = "running"]_vars

\* the name "m c s v" ended the process at the argument checks
C13_Witness ==
    /\ args = << <<"m", " ", "c", "s", "v">> >>
    /\ pc = "exited"
    /\ status = "failure"
    /\ file = NoFile

\* the name "m<tab>c" passed the argument checks and its file was read
C13_TabNameWitness ==
    /\ args = << <<"m", "\t", "c">> >>
    /\ pc = "menu"
    /\ loaded

(***************************************************************************)
(* The file organizer as the specification describes it.                   *)
(***************************************************************************)
\* the ways in which the last action met a failing file-system operation
FsFailures ==
    {"create_dir", "chmod_dir", "open", "read", "create_file", "write",
     "chmod_file", "read_dir"}

(***************************************************************************)
(* C14: as claimed, a failure of a file-system operation (open, read,      *)
(* create, chmod, directory listing) aborts only the current action and    *)
(* control is back in the main menu loop with the process still running;   *)
(* the process has ended only if the user selected exit.  (A failed read   *)
(* of the console is not a file-system operation and is left aside.)       *)
(***************************************************************************)
C14_FailureReturnsToMainMenu ==
    /\ last.result \in FsFailures => menu = "main" /\ exit_status = "running"
    /\ menu = "exited" /\ last.result # "stdin" =>
          last.op = "exit" /\ exit_status = "success"

\* the part of C14 that holds: a failure inside process_file leaves the
\* process running in the main menu loop
C14_ProcessFailureReturnsToMainMenu ==
    last.result \in FsFailures \ {"read_dir"} =>
        menu = "main" /\ exit_status = "running"

\* the directory could not be listed and the process has ended by a panic
C14_ReadDirPanicReached ==
    /\ last.result = "read_dir"
    /\ menu = "exited"
    /\ exit_status = "panic"

\* process_file failed at the chmod of a year file and the main menu is back
C14_ProcessFailureReached ==
    /\ last.result = "chmod_file"
    /\ menu = "main"
    /\ exit_status = "running"
    /\ tree # {}

(***************************************************************************)
(* find_largest_csv and find_smallest_csv as the specification describes   *)
(* them.                                                                   *)
(***************************************************************************)
\* the positions of the regular files named movies_*.csv in the listing
Candidates ==
    { i \in 1..Len(dir_entries) :
        /\ dir_entries[i].is_file
        /\ StartsWith(dir_entries[i].name, <<"m", "o", "v", "i", "e", "s", "_">>)
        /\ EndsWith(dir_entries[i].name, <<".", "c", "s", "v">>) }

MaxSize == CHOOSE m \in { dir_entries[i].size : i \in Candidates } :
               \A i \in Candidates : dir_entries[i].size <= m
MinSize == CHOOSE m \in { dir_entries[i].size : i \in Candidates } :
               \A i \in Candidates : dir_entries[i].size >= m

\* the first candidate of the given size in enumeration order
FirstOfSize(size) ==
    CHOOSE i \in Candidates :
        /\ dir_entries[i].size = size
        /\ \A j \in Candidates : j < i => dir_entries[j].size # size

(***************************************************************************)
(* C15: find_largest_csv and find_smallest_csv consider exactly the        *)
(* regular files whose name starts with "movies_" and ends with ".csv";    *)
(* they return none if there is no such file, and otherwise the name of    *)
(* the first file, in enumeration order, among the candidates of maximum   *)
(* (minimum) size.                                                         *)
(***************************************************************************)
C15_FirstLargestOrSmallestCandidate ==
    /\ last.op = "largest" =>
          IF Candidates = {} THEN ~last.found
          ELSE last.found /\ last.name = dir_entries[FirstOfSize(MaxSize)].name
    /\ last.op = "smallest" =>
          IF Candidates = {} THEN ~last.found
          ELSE last.found /\ last.name = dir_entries[FirstOfSize(MinSize)].name

\* two candidates of the same size and a larger directory of a matching
\* name: the largest is the candidate enumerated first
C15_Witness ==
    /\ dir_entries = <<Movies2, MoviesDir, Movies1>>
    /\ last.op = "largest"
    /\ last.found
    /\ last.name = Movies2.name

\* no candidate among a directory, a .txt file and a file of another prefix
C15_NoneWitness ==
    /\ dir_entries = <<MoviesDir, MoviesTxt, XMovies>>
    /\ last.op = "smallest"
    /\ ~last.found

(***************************************************************************)
(* process_file as the specification describes it.                         *)
(***************************************************************************)
\* the step is a call of process_file that returned Ok
ProcessSucceeds == menu = "select" /\ menu' = "main" /\ last'.result = "ok"

\* the rows that have both a title and a year
HasTitleAndYear(row) == Len(row) >= 2 /\ row[1] # <<>> /\ row[2] # <<>>

YearsOf(rows) == { rows[n][2] : n \in { k \in 1..Len(rows) : HasTitleAndYear(rows[k]) } }

\* the titles of the rows of the year among the first n rows, in input order
RECURSIVE TitlesOf(_, _, _)
TitlesOf(rows, n, year) ==
    IF n = 0 THEN <<>>
    ELSE IF HasTitleAndYear(rows[n]) /\ rows[n][2] = year
         THEN Append(TitlesOf(rows, n - 1, year), rows[n][1])
         ELSE TitlesOf(rows, n - 1, year)

\* the objects directly inside the directory of the given name
Inside(t, dir_name) == { o \in t : Len(o.path) = 2 /\ o.path[1] = dir_name }

TxtName(year) == year \o <<".", "t", "x", "t">>

\* the directory did not exist before the step; after it, it has mode 0750
\* and holds exactly one file per year of the rows read, of mode 0640, with
\* the titles of the year in input order
NewDirectoryWithOneFilePerYear ==
    LET d    == last'.dir_name
        rows == last'.rows
    IN  /\ ~Exists(tree, <<d>>)
        /\ Obj(<<d>>, TRUE, DirMode, <<>>) \in tree'
        /\ { o.path[2] : o \in Inside(tree', d) } = { TxtName(y) : y \in YearsOf(rows) }
        /\ \A o \in Inside(tree', d) : ~o.is_dir /\ o.mode = FileMode
        /\ \A y \in YearsOf(rows) :
              \E o \in Inside(tree', d) :
                  o.path[2] = TxtName(y) /\ o.lines = TitlesOf(rows, Len(rows), y)

(***************************************************************************)
(* C16: as claimed, a successful process_file creates a new directory,     *)
(* never reusing an existing one, and in it exactly one text file per      *)
(* distinct year value among the rows having a non-empty title and a       *)
(* non-empty year; each file holds the titles of its year, one per line,   *)
(* each once and in input order; the directory has mode 0750 and every     *)
(* year file mode 0640.                                                    *)
(***************************************************************************)
C16_OneFilePerYearInNewDirectory ==
    [][ProcessSucceeds => NewDirectoryWithOneFilePerYear]_vars

\* the part of C16 that holds: the same for files none of whose year values
\* contains a path separator
HasSeparator(text) == \E i \in 1..Len(text) : text[i] = "/"

C16_PlainYearsOneFilePerYear ==
    [][ProcessSucceeds /\ (\A y \in YearsOf(last'.rows) : ~HasSeparator(y))
          => NewDirectoryWithOneFilePerYear]_vars

\* a file with "A" and "B" of 1994 was processed: 1994.txt holds A, B
C16_PlainYearsReached ==
    /\ last.result = "ok"
    /\ last.rows = << << <<"A">>, Y1994 >>, << <<"B">>, Y1994 >> >>
    /\ Obj(<<last.dir_name, TxtName(Y1994)>>, FALSE, FileMode, << <<"A">>, <<"B">> >>)
          \in tree

\* a file with the year value "../1994" was processed with success: the file
\* 1994.txt is in the current directory and the new directory is empty
C16_FileOutsideDirectoryReached ==
    /\ last.result = "ok"
    /\ last.rows = << << <<"E">>, <<".", ".", "/">> \o Y1994 >> >>
    /\ Obj(<<TxtName(Y1994)>>, FALSE, FileMode, << <<"E">> >>) \in tree
    /\ Inside(tree, last.dir_name) = {}

\* a second call of process_file met the directory of the first and failed
C16_ExistingDirectoryNotReused ==
    /\ last.result = "create_dir"
    /\ Exists(tree, <<last.dir_name>>)
    /\ menu = "main"

(***************************************************************************)
(* Ties in best-per-year.                                                  *)
(***************************************************************************)
\* the position of the first record of the year that has the year's maximum
\* rating
FirstBestOf(year) ==
    CHOOSE i \in 1..Len(movies) :
        /\ movies[i].year = year /\ movies[i].rating = MaxRatingOf(year)
        /\ \A j \in 1..(i - 1) :
              ~(movies[j].year = year /\ movies[j].rating = MaxRatingOf(year))

(***************************************************************************)
(* C17: best-per-year is deterministic on ties.  The entry shown for a     *)
(* year is that of the first record, in collection order, among the        *)
(* records of the year that have the year's maximum rating; so when all    *)
(* records of a year have rating 0.0 the first of them is shown.           *)
(***************************************************************************)
C17_FirstOfTiedRecordsShown ==
    cmd.op = "best" =>
        \A k \in 1..Len(out) :
            /\ out[k].year \in YearsPresent
            /\ out[k].text = movies[FirstBestOf(out[k].year)].title
            /\ out[k].shown = FormatRating(movies[FirstBestOf(out[k].year)].rating)

\* "Q" and "A" of 1994 are both rated 9.3 and "Q" comes first: "Q" is shown
C17_Witness ==
    /\ cmd.op = "best"
    /\ Len(movies) >= 2
    /\ movies[1].title = <<"Q">> /\ movies[1].year = 1994 /\ movies[1].rating = 930
    /\ movies[2].title = <<"A">> /\ movies[2].year = 1994 /\ movies[2].rating = 930
    /\ \E k \in 1..Len(out) : out[k] = Line("best", 1994, 93, <<"Q">>)

\* "E" and "D" of 2021 both have the default rating 0.0 and "E" comes first
C17_AllZeroWitness ==
    /\ cmd.op = "best"
    /\ Len(movies) = 2
    /\ movies[1].title = <<"E">> /\ movies[1].year = 2021 /\ movies[1].rating = 0
    /\ movies[2].title = <<"D">> /\ movies[2].year = 2021 /\ movies[2].rating = 0
    /\ out = << Line("best", 2021, 0, <<"E">>) >>

====
